---- MODULE Spec2Model ----
(***************************************************************************)
(* casario-backend: the two deployment variants of src/server.js.          *)
(*   - volatile variant   (lines 1-256):  in-process `database.users`      *)
(*   - persistent variant (lines 258-451): MongoDB collection `users`      *)
(*     plus the Cloudinary uploader.                                       *)
(* A behaviour fixes the deployed variant in Init and then handles one     *)
(* HTTP request per step (the volatile handlers are synchronous; the       *)
(* persistent POST /api/sync suspends at `await col.updateOne`).           *)
(***************************************************************************)
EXTENDS Integers, Sequences, FiniteSets, TLC

VARIABLES
    variant,    \* which server is deployed: "volatile" | "persistent"
    users,      \* volatile: database.users, property key -> user data
    col,        \* persistent: db.collection('users'), userId -> document
    pending,    \* persistent: POST /api/sync requests suspended at updateOne
    assets,     \* Cloudinary: public ids held by the provider
    destroyed,  \* Cloudinary: public ids uploader.destroy was called with
    clock,      \* the wall clock read by new Date() / Date.now()
    last,       \* the mutating request completed last: route, id sent, status
    written     \* history: the user keys a write request was accepted for

vars == <<variant, users, col, pending, assets, destroyed, clock, last, written>>

(***************************************************************************)
(* JSON values.  Every value is a record tagged by t, so that values of    *)
(* different JavaScript types can be stored side by side and compared.     *)
(***************************************************************************)
UNDEF == [t |-> "undefined"]
JNull == [t |-> "null"]
JNaN == [t |-> "NaN"]
JFalse == [t |-> "bool", b |-> FALSE]
JNum(n) == [t |-> "num", n |-> n]
JStr(s) == [t |-> "str", s |-> s]
JArr(a) == [t |-> "arr", a |-> a]
JDate(n) == [t |-> "date", n |-> n]
\* A fleet object; a field the object does not have is UNDEF.
Fleet(userId, vehicles, updatedAt) ==
    [t |-> "obj", userId |-> userId, vehicles |-> vehicles, updatedAt |-> updatedAt]
JFleet(v) == Fleet(UNDEF, v, UNDEF)

\* JavaScript truthiness, as used by `x && ...`, `x || d`, `if (x)`, `!x`.
Truthy(v) ==
    CASE v.t \in {"undefined", "null", "NaN"} -> FALSE
      [] v.t = "bool" -> v.b
      [] v.t = "num" -> v.n # 0
      [] v.t = "str" -> v.s # ""
      [] OTHER -> TRUE

\* Mutant: the default stands in only for an absent value.
OrElse_AbsentOnly(a, d) == IF a = [t |-> "undefined"] THEN d ELSE a

\* a || d
OrElse(a, d) == IF Truthy(a) THEN a ELSE d

IsArray(v) == v.t = "arr"

Digit == <<"0", "1", "2", "3", "4", "5", "6", "7", "8", "9">>

\* Number -> decimal string (natural numbers).
RECURSIVE NumStr(_)
NumStr(n) ==
    IF n < 10 THEN Digit[n + 1] ELSE NumStr(n \div 10) \o Digit[(n % 10) + 1]

\* String(v): what a template literal or a property key makes of a value.
ToStr(v) ==
    CASE v.t = "str" -> v.s
      [] v.t = "num" -> NumStr(v.n)
      [] v.t = "undefined" -> "undefined"
      [] v.t = "null" -> "null"
      [] v.t = "NaN" -> "NaN"
      [] v.t = "bool" -> IF v.b THEN "true" ELSE "false"
      [] OTHER -> "[object Object]"

\* `${month}-${year}`
Key(month, year) == ToStr(month) \o "-" \o ToStr(year)

(***************************************************************************)
(* Request inputs.                                                         *)
(***************************************************************************)
UserIds == {"u1", "u2"}
Months == {1, 2}
Years == {2025}

\* parseInt on a URL segment: the number a canonical decimal string denotes,
\* NaN for a string that is no numeral of the months and years in use.
ParseInt(s) ==
    IF \E n \in Months \cup Years : NumStr(n) = s
    THEN JNum(CHOOSE n \in Months \cup Years : NumStr(n) = s)
    ELSE JNaN

\* Values a client sends as items / content / vehicles (opaque to the server).
ItemsA == JArr(<<JStr("rent")>>)
ItemsB == JArr(<<JStr("fuel")>>)
Cars == JArr(<<JStr("car")>>)
ItemVals == {ItemsA, JNull}
ContentVals == {JStr("memo"), JStr("")}
VehicleVals == {Cars, JNull}

(***************************************************************************)
(* Volatile variant: database.users and getUserData.                       *)
(* A per-kind mapping (a JavaScript object keyed by `month-year`) is a     *)
(* sequence of [k, v] entries in insertion order, the order Object.values  *)
(* enumerates.                                                             *)
(***************************************************************************)
DefaultUserData ==
    [expenses |-> <<>>, income |-> <<>>,
     fleet |-> JFleet(JArr(<<>>)),
     notes |-> <<>>]

\* Mutant: a new user starts from the data of a user already in the store.
getUserData_CopiesExisting(db, userId) ==
    LET k == ToStr(userId) IN
    IF k \in DOMAIN db THEN db
    ELSE [x \in DOMAIN db \cup {k} |->
            IF x # k THEN db[x]
            ELSE IF DOMAIN db = {} THEN DefaultUserData
            ELSE db[CHOOSE y \in DOMAIN db : TRUE]]

\* database.users after getUserData(userId) has run.
getUserData(db, userId) ==
    LET k == ToStr(userId) IN
    IF k \in DOMAIN db THEN db
    ELSE [x \in DOMAIN db \cup {k} |-> IF x = k THEN DefaultUserData ELSE db[x]]

HasKey(map, k) == \E i \in 1..Len(map) : map[i].k = k

\* map[k], undefined when the property is absent
Lookup(map, k) ==
    IF HasKey(map, k) THEN (CHOOSE e \in {map[i] : i \in 1..Len(map)} : e.k = k).v
    ELSE UNDEF

\* Mutant: an existing property is kept, the assignment is lost.
Put_KeepsFirst(map, k, v) ==
    IF HasKey(map, k) THEN map ELSE Append(map, [k |-> k, v |-> v])

\* map[k] = v
Put(map, k, v) ==
    IF HasKey(map, k)
    THEN [i \in 1..Len(map) |-> IF map[i].k = k THEN [k |-> k, v |-> v] ELSE map[i]]
    ELSE Append(map, [k |-> k, v |-> v])

\* Object.values(map)
Values(map) == [i \in 1..Len(map) |-> map[i].v]

Keys(map) == {map[i].k : i \in 1..Len(map)}

\* Bound on the clock: the clock advances with every write the volatile server
\* handles and every POST or DELETE the persistent server handles, at most
\* MaxClock times in a run.
MaxClock == 2

Kinds == {"expenses", "income", "notes"}

\* The record object a write stores: { userId, month, year, items|content, updatedAt }
MkRecord(kind, userId, month, year, payload, at) ==
    IF kind = "notes"
    THEN [t |-> "obj", userId |-> userId, month |-> month, year |-> year,
          content |-> payload, updatedAt |-> at]
    ELSE [t |-> "obj", userId |-> userId, month |-> month, year |-> year,
          items |-> payload, updatedAt |-> at]

\* The payload of a record object: exp.items, inc.items, note.content
PayloadOf(kind, rec) == IF kind = "notes" THEN rec.content ELSE rec.items

\* The literal a per-domain GET answers with when the key is absent.
EmptyRecord(kind, userId, month, year) ==
    MkRecord(kind, JStr(userId), ParseInt(month), ParseInt(year),
             IF kind = "notes" THEN JStr("") ELSE JArr(<<>>), UNDEF)

\* res.json(...) of GET /api/<kind>/:userId/:month/:year, on the store the
\* handler has run getUserData on.
RecordBody(db, kind, userId, month, year) ==
    OrElse(Lookup(db[userId][kind], Key(JStr(month), JStr(year))),
           EmptyRecord(kind, userId, month, year))

\* database.users after POST /api/<kind> { userId, month, year, items|content }
PutRecord(db, kind, userId, month, year, payload, at) ==
    LET d == getUserData(db, userId)
        u == ToStr(userId)
    IN [d EXCEPT ![u][kind] =
            Put(@, Key(month, year), MkRecord(kind, userId, month, year, payload, at))]

\* database.users after POST /api/fleet { userId, vehicles }
PutFleet(db, userId, vehicles, at) ==
    LET d == getUserData(db, userId)
        u == ToStr(userId)
    IN [d EXCEPT ![u].fleet = Fleet(userId, vehicles, at)]

\* Mutant: the GET assigns the record it answers with to the mapping.
StoreAfterGet_StoresDefault(db, kind, userId, month, year) ==
    LET d == getUserData(db, JStr(userId)) IN
    [d EXCEPT ![userId][kind] =
        Put(@, Key(JStr(month), JStr(year)),
            OrElse(Lookup(@, Key(JStr(month), JStr(year))),
                   EmptyRecord(kind, userId, month, year)))]

\* database.users after GET /api/<kind>/:userId/:month/:year: getUserData only,
\* the record the handler answers with is not assigned to the mapping
StoreAfterGet(db, kind, userId, month, year) == getUserData(db, JStr(userId))

\* res.json(...) of GET /api/sync/:userId (volatile), on the store the handler
\* has run getUserData on.
SyncBodyV(db, userId, at) ==
    [expenses |-> JArr(Values(db[userId].expenses)),
     income |-> JArr(Values(db[userId].income)),
     fleet |-> OrElse(db[userId].fleet, JFleet(JArr(<<>>))),
     notes |-> JArr(Values(db[userId].notes)),
     timestamp |-> at]

\* id is the userId the request carried (the publicId, for DELETE /api/upload)
Done(op, id, status) == [op |-> op, id |-> id, status |-> status]

(***************************************************************************)
(* Volatile POST /api/sync.                                                *)
(***************************************************************************)
\* list.forEach(x => { map[`${x.month}-${x.year}`] = {...} })
RECURSIVE ForEachPut(_, _, _, _, _)
ForEachPut(map, kind, userId, list, at) ==
    IF list = <<>> THEN map
    ELSE LET x == Head(list) IN
         ForEachPut(Put(map, Key(x.month, x.year),
                        MkRecord(kind, userId, x.month, x.year, PayloadOf(kind, x), at)),
                    kind, userId, Tail(list), at)

\* Mutant: the incoming list replaces the mapping instead of merging into it.
SyncKind_SetReplace(map, kind, userId, list, at) ==
    IF Truthy(list) /\ IsArray(list) THEN ForEachPut(<<>>, kind, userId, list.a, at)
    ELSE map

\* if (list && Array.isArray(list)) list.forEach(...)
SyncKind(map, kind, userId, list, at) ==
    IF Truthy(list) /\ IsArray(list) THEN ForEachPut(map, kind, userId, list.a, at)
    ELSE map

\* fleet.vehicles of a truthy fleet value
VehiclesOf(fleet) == IF fleet.t = "obj" THEN fleet.vehicles ELSE UNDEF

\* Mutant: a fleet that omits vehicles keeps the vehicles stored before.
SyncFleetV_KeepsVehicles(old, userId, fleet, at) ==
    IF Truthy(fleet)
    THEN Fleet(userId, OrElse(VehiclesOf(fleet), old.vehicles), at)
    ELSE old

\* if (fleet) userData.fleet = { userId, vehicles: fleet.vehicles || [], updatedAt }
SyncFleetV(old, userId, fleet, at) ==
    IF Truthy(fleet)
    THEN Fleet(userId, OrElse(VehiclesOf(fleet), JArr(<<>>)), at)
    ELSE old

\* database.users after the volatile POST /api/sync handler has run on body
SyncStoreV(db, body, at) ==
    LET d == getUserData(db, body.userId)
        u == ToStr(body.userId)
    IN [d EXCEPT ![u] =
          [expenses |-> SyncKind(@.expenses, "expenses", body.userId, body.expenses, at),
           income |-> SyncKind(@.income, "income", body.userId, body.income, at),
           fleet |-> SyncFleetV(@.fleet, body.userId, body.fleet, at),
           notes |-> SyncKind(@.notes, "notes", body.userId, body.notes, at)]]

(***************************************************************************)
(* Request bodies of POST /api/sync.                                       *)
(***************************************************************************)
\* One element of a sync list: { month, year, items } or { month, year, content }
El(kind, m, payload) ==
    IF kind = "notes"
    THEN [t |-> "obj", month |-> JNum(m), year |-> JNum(2025), content |-> payload]
    ELSE [t |-> "obj", month |-> JNum(m), year |-> JNum(2025), items |-> payload]

P1(kind) == IF kind = "notes" THEN JStr("memo") ELSE ItemsA
P2(kind) == IF kind = "notes" THEN JStr("") ELSE ItemsB

\* Values a client sends for the field expenses / income / notes: lists of
\* one and of two records, and a value that is no list.
ListVals(kind) ==
    { JArr(<<El(kind, 1, P2(kind))>>),
      JArr(<<El(kind, 2, P2(kind))>>),
      JArr(<<El(kind, 2, P1(kind)), El(kind, 1, P1(kind))>>),
      JStr("n/a") }

\* Values a client sends for the field fleet
FleetVals == { JFleet(Cars), JFleet(UNDEF), JFleet(JNull), JNull }

EmptyBodyV(userId) ==
    [userId |-> userId, expenses |-> UNDEF, income |-> UNDEF, fleet |-> UNDEF,
     notes |-> UNDEF]

FullBodyV(userId) ==
    [userId |-> userId,
     expenses |-> JArr(<<El("expenses", 1, ItemsB)>>),
     income |-> JArr(<<El("income", 1, ItemsA)>>),
     fleet |-> JFleet(Cars),
     notes |-> JArr(<<El("notes", 1, JStr("memo"))>>)]

\* Bodies with no field, with one field, or with all four; and bodies that
\* carry no userId.
SyncBodiesV ==
    UNION { {EmptyBodyV(JStr(u)), FullBodyV(JStr(u))}
            \cup UNION {{[EmptyBodyV(JStr(u)) EXCEPT ![k] = l] : l \in ListVals(k)}
                        : k \in Kinds}
            \cup {[EmptyBodyV(JStr(u)) EXCEPT !.fleet = f] : f \in FleetVals}
            : u \in UserIds }
    \cup {EmptyBodyV(UNDEF), FullBodyV(UNDEF)}

(***************************************************************************)
(* Volatile variant: the routes.  Each handler runs to completion.         *)
(***************************************************************************)
Volatile == variant = "volatile"

Persistent == variant = "persistent"

PersistentUnchanged == UNCHANGED <<variant, col, pending, assets, destroyed>>

VolatileUnchanged == UNCHANGED <<variant, users>>

\* app.get('/')
HealthV ==
    /\ Volatile
    /\ UNCHANGED <<users, clock, last, written>>
    /\ PersistentUnchanged

\* GET /api/<kind>/:userId/:month/:year
GetRecord(kind, userId, month, year) ==
    /\ Volatile
    /\ users' = StoreAfterGet(users, kind, userId, month, year)
    /\ UNCHANGED <<clock, last, written>>
    /\ PersistentUnchanged

\* POST /api/<kind>
PostRecord(kind, userId, month, year, payload) ==
    /\ Volatile
    /\ clock < MaxClock
    /\ users' = PutRecord(users, kind, userId, month, year, payload, JDate(clock))
    /\ last' = Done("POST /api/" \o kind, userId, 200)
    /\ written' = written \cup {ToStr(userId)}
    /\ clock' = clock + 1
    /\ PersistentUnchanged

GetExpenses ==
    \E u \in UserIds, m \in Months, y \in Years :
        GetRecord("expenses", u, NumStr(m), NumStr(y))

PostExpenses ==
    \E u \in UserIds, m \in Months, y \in Years, items \in ItemVals :
        PostRecord("expenses", JStr(u), JNum(m), JNum(y), items)

GetIncome ==
    \E u \in UserIds, m \in Months, y \in Years :
        GetRecord("income", u, NumStr(m), NumStr(y))

PostIncome ==
    \E u \in UserIds, m \in Months, y \in Years, items \in ItemVals :
        PostRecord("income", JStr(u), JNum(m), JNum(y), items)

GetNotes ==
    \E u \in UserIds, m \in Months, y \in Years :
        GetRecord("notes", u, NumStr(m), NumStr(y))

PostNotes ==
    \E u \in UserIds, m \in Months, y \in Years, content \in ContentVals :
        PostRecord("notes", JStr(u), JNum(m), JNum(y), content)

\* GET /api/fleet/:userId
GetFleetOf(userId) ==
    /\ Volatile
    /\ users' = getUserData(users, JStr(userId))
    /\ UNCHANGED <<clock, last, written>>
    /\ PersistentUnchanged

GetFleet == \E u \in UserIds : GetFleetOf(u)

\* POST /api/fleet
PostFleetOf(userId, vehicles) ==
    /\ Volatile
    /\ clock < MaxClock
    /\ users' = PutFleet(users, userId, vehicles, JDate(clock))
    /\ last' = Done("POST /api/fleet", userId, 200)
    /\ written' = written \cup {ToStr(userId)}
    /\ clock' = clock + 1
    /\ PersistentUnchanged

PostFleet == \E u \in UserIds, vehicles \in VehicleVals : PostFleetOf(JStr(u), vehicles)

\* GET /api/sync/:userId
GetSyncVOf(userId) ==
    /\ Volatile
    /\ users' = getUserData(users, JStr(userId))
    /\ UNCHANGED <<clock, last, written>>
    /\ PersistentUnchanged

GetSyncV == \E u \in UserIds : GetSyncVOf(u)

\* POST /api/sync
PostSyncVOf(body) ==
    /\ Volatile
    /\ clock < MaxClock
    /\ users' = SyncStoreV(users, body, JDate(clock))
    /\ last' = Done("POST /api/sync", body.userId, 200)
    /\ written' = written \cup {ToStr(body.userId)}
    /\ clock' = clock + 1
    /\ PersistentUnchanged

PostSyncV == \E body \in SyncBodiesV : PostSyncVOf(body)

(***************************************************************************)
(* Persistent variant: one document per userId in db.collection('users').  *)
(* A document is a function from field names to values, UNDEF where the    *)
(* document has no such field.                                             *)
(***************************************************************************)
SyncFields ==
    {"expenses", "income", "fleet", "notes", "systemUsers", "years", "categories",
     "suppliers", "paymentMethods", "maintenance", "maintenanceTypes",
     "maintenanceAreas"}

DocFields == {"userId", "updatedAt"} \cup SyncFields

StrList(seq) == JArr([i \in 1..Len(seq) |-> JStr(seq[i])])

defaultCategories ==
    StrList(<<"Alimentacao", "Carro", "Transporte", "Manutencao", "Farmacia", "Outros",
              "Pets", "Hotel", "Escritorio", "Fornecedor">>)

defaultSuppliers ==
    StrList(<<"Amoedo", "Carrefour", "Detail Wash", "Droga Raia", "Hortfruti", "Kalunga",
              "Lave Bem", "Outros", "Pacheco", "PetChic", "Posto hum", "Prezunic",
              "RM agua", "Venancio", "Zona Sul">>)

defaultPaymentMethods ==
    StrList(<<"Cartao de Credito", "Reembolso", "Conta Corrente", "Outros">>)

defaultYears == JArr(<<JNum(2024), JNum(2025), JNum(2026)>>)

\* The right-hand side of `userData.<field> || ...` and the !userData literal.
DefaultOf(field) ==
    CASE field = "fleet" -> JFleet(JArr(<<>>))
      [] field = "years" -> defaultYears
      [] field = "categories" -> defaultCategories
      [] field = "suppliers" -> defaultSuppliers
      [] field = "paymentMethods" -> defaultPaymentMethods
      [] OTHER -> JArr(<<>>)

\* col.findOne({ userId })
findOne(c, userId) == IF userId \in DOMAIN c THEN c[userId] ELSE JNull

\* res.json(...) of GET /api/sync/:userId (persistent)
SyncBodyP(c, userId, at) ==
    LET userData == findOne(c, userId) IN
    [f \in SyncFields \cup {"timestamp"} |->
        IF f = "timestamp" THEN at
        ELSE IF userData = JNull THEN DefaultOf(f)
        ELSE OrElse(userData[f], DefaultOf(f))]

\* Mutant: a field the body omits is written as an empty list.
BuildUpdate_FillsAbsent(body, at) ==
    [f \in DocFields |->
        IF f = "userId" THEN body.userId
        ELSE IF f = "updatedAt" THEN at
        ELSE IF body[f] = UNDEF THEN JArr(<<>>) ELSE body[f]]

\* const update = { userId, updatedAt: new Date() }; if (x !== undefined) update.x = x
BuildUpdate(body, at) ==
    [f \in DocFields |->
        IF f = "userId" THEN body.userId
        ELSE IF f = "updatedAt" THEN at
        ELSE body[f]]

\* Mutant: the update only fills the fields the document does not have yet.
updateOne_KeepsStored(c, update) ==
    LET u == update["userId"].s
        old == IF u \in DOMAIN c THEN c[u] ELSE [f \in DocFields |-> UNDEF]
    IN [x \in DOMAIN c \cup {u} |->
          IF x = u
          THEN [f \in DocFields |-> IF old[f] # UNDEF THEN old[f] ELSE update[f]]
          ELSE c[x]]

\* col.updateOne({ userId }, { $set: update }, { upsert: true })
updateOne(c, update) ==
    LET u == update["userId"].s
        old == IF u \in DOMAIN c THEN c[u] ELSE [f \in DocFields |-> UNDEF]
    IN [x \in DOMAIN c \cup {u} |->
          IF x = u
          THEN [f \in DocFields |-> IF update[f] # UNDEF THEN update[f] ELSE old[f]]
          ELSE c[x]]

\* Mutant: the delete ignores its filter.
deleteOne_Unfiltered(c, userId) == <<>>

\* col.deleteOne({ userId })
deleteOne(c, userId) == [x \in DOMAIN c \ {userId} |-> c[x]]

EmptyBodyP(userId) ==
    [f \in {"userId"} \cup SyncFields |-> IF f = "userId" THEN userId ELSE UNDEF]

ConfigFields == SyncFields \ {"expenses", "income", "fleet", "notes"}

\* A body that carries every field.
FullBodyP(userId) ==
    [f \in {"userId"} \cup SyncFields |->
        CASE f = "userId" -> userId
          [] f = "expenses" -> JArr(<<El(f, 1, ItemsA)>>)
          [] f = "income" -> JArr(<<El(f, 1, ItemsA)>>)
          [] f = "notes" -> JArr(<<El(f, 1, JStr("memo"))>>)
          [] f = "fleet" -> JFleet(Cars)
          [] f = "years" -> JArr(<<JNum(2027)>>)
          [] OTHER -> JArr(<<JStr(f)>>)]

\* A body that carries the configuration and maintenance lists only.
SettingsBodyP(userId) ==
    [f \in {"userId"} \cup SyncFields |->
        CASE f = "userId" -> userId
          [] f = "years" -> JArr(<<JNum(2030)>>)
          [] f \in ConfigFields -> JArr(<<JStr("my " \o f)>>)
          [] OTHER -> UNDEF]

\* Bodies that carry one field.
OneFieldBodiesP(userId) ==
    {[EmptyBodyP(userId) EXCEPT !["expenses"] = v] :
        v \in {JArr(<<El("expenses", 1, ItemsB)>>), JArr(<<El("expenses", 2, ItemsB)>>),
               JNull}}
    \cup {[EmptyBodyP(userId) EXCEPT !["fleet"] = v] : v \in {JFleet(Cars), JFleet(UNDEF)}}
    \cup {[EmptyBodyP(userId) EXCEPT !["years"] = JArr(<<JNum(2031)>>)]}

SyncBodiesP ==
    UNION { {EmptyBodyP(JStr(u)), FullBodyP(JStr(u)), SettingsBodyP(JStr(u))}
            \cup OneFieldBodiesP(JStr(u)) : u \in UserIds }
    \cup {EmptyBodyP(UNDEF), FullBodyP(UNDEF)}

\* app.get('/') of the persistent server
HealthP ==
    /\ Persistent
    /\ UNCHANGED <<col, pending, assets, destroyed, clock, last, written>>
    /\ VolatileUnchanged

\* GET /api/sync/:userId: findOne and res.json; the store is not written
GetSyncPOf(userId) ==
    /\ Persistent
    /\ UNCHANGED <<col, pending, assets, destroyed, clock, last, written>>
    /\ VolatileUnchanged

GetSyncP == \E u \in UserIds : GetSyncPOf(u)

\* POST /api/sync up to `await col.updateOne(...)`: the 400 answer, or the
\* update object handed to the driver
PostSyncPOf(body) ==
    /\ Persistent
    /\ IF ~Truthy(body.userId)
       THEN /\ last' = Done("POST /api/sync", body.userId, 400)
            /\ UNCHANGED <<pending, written>>
       ELSE /\ pending' = pending \cup {[body |-> body,
                                         update |-> BuildUpdate(body, JDate(clock))]}
            /\ written' = written \cup {ToStr(body.userId)}
            /\ UNCHANGED last
    /\ clock < MaxClock
    /\ clock' = clock + 1
    /\ UNCHANGED <<col, assets, destroyed>>
    /\ VolatileUnchanged

PostSyncP == \E body \in SyncBodiesP : PostSyncPOf(body)

\* the store applies the updateOne of a suspended request p; the handler
\* answers 200
UpdateAppliedOf(p) ==
    /\ Persistent
    /\ p \in pending
    /\ col' = updateOne(col, p.update)
    /\ pending' = pending \ {p}
    /\ last' = Done("POST /api/sync", p.body.userId, 200)
    /\ UNCHANGED <<assets, destroyed, clock, written>>
    /\ VolatileUnchanged

UpdateApplied == \E p \in pending : UpdateAppliedOf(p)

\* the store rejects the updateOne of a suspended request p; the catch block
\* answers 500
UpdateFailedOf(p) ==
    /\ Persistent
    /\ p \in pending
    /\ pending' = pending \ {p}
    /\ last' = Done("POST /api/sync", p.body.userId, 500)
    /\ UNCHANGED <<col, assets, destroyed, clock, written>>
    /\ VolatileUnchanged

UpdateFailed == \E p \in pending : UpdateFailedOf(p)

\* DELETE /api/sync/:userId
DeleteSyncOf(userId) ==
    /\ Persistent
    /\ col' = deleteOne(col, userId)
    /\ last' = Done("DELETE /api/sync", JStr(userId), 200)
    /\ clock < MaxClock
    /\ clock' = clock + 1
    /\ UNCHANGED <<pending, assets, destroyed, written>>
    /\ VolatileUnchanged

DeleteSync == \E u \in UserIds : DeleteSyncOf(u)

(***************************************************************************)
(* Persistent variant: uploads, delegated to the Cloudinary uploader.      *)
(* A file name is a sequence of one-character strings.                     *)
(***************************************************************************)
Alnum ==
    {"a", "b", "c", "d", "e", "f", "g", "h", "i", "j", "k", "l", "m", "n", "o", "p", "q",
     "r", "s", "t", "u", "v", "w", "x", "y", "z", "0", "1", "2", "3", "4", "5", "6", "7",
     "8", "9"}

\* name.replace(/[^a-z0-9]/gi, '_')
RECURSIVE Sanitize(_)
Sanitize(chars) ==
    IF chars = <<>> THEN ""
    ELSE (IF Head(chars) \in Alnum THEN Head(chars) ELSE "_") \o Sanitize(Tail(chars))

\* { file, filename, userId } of the uploads clients make; <<>> is no file name
UploadBodies ==
    { [file |-> UNDEF, filename |-> <<>>, userId |-> UNDEF],
      [file |-> JStr("data:application/pdf;base64,AA"), filename |-> <<>>,
       userId |-> UNDEF],
      [file |-> JStr("data:application/pdf;base64,AA"),
       filename |-> <<"a", ".", "p", "d", "f">>, userId |-> JStr("u1")] }

\* the public id the provider files an upload under: folder/public_id
PublicId(filename, userId, at) ==
    "casadw/" \o ToStr(OrElse(userId, JStr("geral"))) \o "/" \o NumStr(at) \o "_"
        \o Sanitize(IF filename = <<>> THEN <<"a", "r", "q", "u", "i", "v", "o">>
                    ELSE filename)

\* POST /api/upload
Upload ==
    \E body \in UploadBodies, ok \in BOOLEAN :
        /\ Persistent
        /\ IF ~Truthy(body.file)
           THEN /\ last' = Done("POST /api/upload", body.userId, 400)
                /\ UNCHANGED assets
           ELSE /\ IF ok
                   THEN /\ assets' =
                             assets \cup {PublicId(body.filename, body.userId, clock)}
                        /\ last' = Done("POST /api/upload", body.userId, 200)
                   ELSE /\ last' = Done("POST /api/upload", body.userId, 500)
                        /\ UNCHANGED assets
        /\ clock < MaxClock
        /\ clock' = clock + 1
        /\ UNCHANGED <<col, pending, destroyed, written>>
        /\ VolatileUnchanged

\* DELETE /api/upload
DeleteUploadOf(publicId, ok) ==
    /\ Persistent
    /\ IF ~Truthy(publicId)
       THEN /\ last' = Done("DELETE /api/upload", publicId, 400)
            /\ UNCHANGED <<assets, destroyed>>
       ELSE IF ok
       THEN /\ destroyed' = destroyed \cup {publicId.s}
            /\ assets' = assets \ {publicId.s}
            /\ last' = Done("DELETE /api/upload", publicId, 200)
       ELSE /\ last' = Done("DELETE /api/upload", publicId, 500)
            /\ UNCHANGED <<assets, destroyed>>
    /\ clock < MaxClock
    /\ clock' = clock + 1
    /\ UNCHANGED <<col, pending, written>>
    /\ VolatileUnchanged

DeleteUpload ==
    \E publicId \in {UNDEF} \cup {JStr(a) : a \in assets}, ok \in BOOLEAN :
        DeleteUploadOf(publicId, ok)

Init ==
    /\ variant \in {"volatile", "persistent"}
    /\ users = <<>>
    /\ col = <<>>
    /\ pending = {}
    /\ assets = {}
    /\ destroyed = {}
    /\ clock = 0
    /\ last = Done("listen", UNDEF, 200)
    /\ written = {}

Next ==
    \/ HealthV
    \/ GetExpenses \/ PostExpenses
    \/ GetIncome \/ PostIncome
    \/ GetFleet \/ PostFleet
    \/ GetNotes \/ PostNotes
    \/ GetSyncV \/ PostSyncV
    \/ HealthP
    \/ GetSyncP \/ PostSyncP \/ UpdateApplied \/ UpdateFailed
    \/ DeleteSync
    \/ Upload \/ DeleteUpload

Spec == Init /\ [][Next]_vars

(***************************************************************************)
(* What the next full read answers, as a function of the store.            *)
(***************************************************************************)
UserKeys == UserIds \cup {"undefined"}

\* GET /api/sync/<u> of the volatile server on store db (timestamp left out)
ReadV(db, u) == SyncBodyV(getUserData(db, JStr(u)), u, UNDEF)

\* GET /api/sync/<u> of the persistent server on collection c
ReadP(c, u) == SyncBodyP(c, u, UNDEF)

\* the field f of the next GET /api/sync/<u> of the deployed server
Read(u, f) == IF Volatile THEN ReadV(users, u)[f] ELSE ReadP(col, u)[f]

\* the `month-year` keys of the records of a list
ListKeys(list) ==
    IF IsArray(list)
    THEN {Key(list.a[i].month, list.a[i].year) : i \in 1..Len(list.a)}
    ELSE {}

\* the records of a list filed under key
AtKey(list, key) ==
    IF IsArray(list)
    THEN {list.a[i] : i \in {j \in 1..Len(list.a) : Key(list.a[j].month, list.a[j].year) = key}}
    ELSE {}

\* the last element of a list filed under key
LastAtKey(list, key) ==
    list.a[CHOOSE i \in 1..Len(list.a) :
              /\ Key(list.a[i].month, list.a[i].year) = key
              /\ \A j \in (i + 1)..Len(list.a) : Key(list.a[j].month, list.a[j].year) # key]

\* Key-wise upsert of the incoming list into the records read before:
\* one record per incoming key, carrying the incoming month, year and payload;
\* every other record as it was; no key lost.
Upserted(kind, before, after, incoming) ==
    /\ \A key \in ListKeys(incoming) :
          \E r \in AtKey(after, key) :
              /\ AtKey(after, key) = {r}
              /\ r.month = LastAtKey(incoming, key).month
              /\ r.year = LastAtKey(incoming, key).year
              /\ PayloadOf(kind, r) = PayloadOf(kind, LastAtKey(incoming, key))
    /\ \A key \in ListKeys(before) \ ListKeys(incoming) :
          AtKey(after, key) = AtKey(before, key)
    /\ ListKeys(before) \subseteq ListKeys(after)

StoredV(db, u, f) == IF u \in DOMAIN db THEN db[u][f] ELSE DefaultUserData[f]
StoredP(c, u, f) == IF u \in DOMAIN c THEN c[u][f] ELSE UNDEF

\* C2: in both variants a sync write leaves every top-level field its payload
\* omits as it was stored, and the next GET /api/sync answers that field as
\* it did before the write.
C2_SparsePatch ==
    [][ /\ (Volatile /\ clock' # clock /\ last'.op = "POST /api/sync") =>
            \A body \in SyncBodiesV : (body.userId = last'.id /\ PostSyncVOf(body)) =>
                \A f \in {"expenses", "income", "fleet", "notes"} : body[f] = UNDEF =>
                    /\ StoredV(users', ToStr(body.userId), f)
                         = StoredV(users, ToStr(body.userId), f)
                    /\ Read(ToStr(body.userId), f)' = Read(ToStr(body.userId), f)
        /\ (Persistent /\ col' # col) =>
            \A p \in pending : UpdateAppliedOf(p) =>
                \A f \in SyncFields : p.body[f] = UNDEF =>
                    /\ StoredP(col', ToStr(p.body.userId), f)
                         = StoredP(col, ToStr(p.body.userId), f)
                    /\ Read(ToStr(p.body.userId), f)' = Read(ToStr(p.body.userId), f)
      ]_vars

\* C2 witness: u1 synced a full payload at time 0 and a payload of only
\* { userId, fleet } at time 1; expenses, income and notes are as stored at 0.
C2_Witness ==
    /\ Volatile
    /\ last = Done("POST /api/sync", JStr("u1"), 200)
    /\ "u1" \in DOMAIN users
    /\ users["u1"].fleet.updatedAt = JDate(1)
    /\ \A k \in Kinds :
          /\ Len(users["u1"][k]) = 1
          /\ users["u1"][k][1].v.updatedAt = JDate(0)

\* C3: a userId no write was ever made for reads as the documented defaults,
\* whatever was done for other userIds.
C3_UnseenUserDefaults ==
    \A u \in UserIds : u \notin written =>
        /\ Read(u, "expenses") = JArr(<<>>)
        /\ Read(u, "income") = JArr(<<>>)
        /\ Read(u, "notes") = JArr(<<>>)
        /\ Read(u, "fleet").vehicles = JArr(<<>>)
        /\ Read(u, "fleet").userId = UNDEF
        /\ Read(u, "fleet").updatedAt = UNDEF
        /\ Persistent =>
            /\ \A f \in {"systemUsers", "maintenance", "maintenanceTypes",
                         "maintenanceAreas"} : Read(u, f) = JArr(<<>>)
            /\ Read(u, "years") = JArr(<<JNum(2024), JNum(2025), JNum(2026)>>)
            /\ Read(u, "categories") = defaultCategories
            /\ Len(Read(u, "categories").a) = 10
            /\ Read(u, "suppliers") = defaultSuppliers
            /\ Len(Read(u, "suppliers").a) = 15
            /\ Read(u, "paymentMethods") = defaultPaymentMethods
            /\ Len(Read(u, "paymentMethods").a) = 4

\* C3 witness: u1 has been written, u2 has only been read (the read created
\* its state) and no write was made for it.
C3_Witness ==
    /\ Volatile
    /\ "u1" \in written
    /\ "u2" \notin written
    /\ {"u1", "u2"} \subseteq DOMAIN users
    /\ Len(users["u1"].expenses) > 0
    /\ users["u1"].fleet.vehicles = Cars

\* res.json(...) of GET /api/<kind>/<u>/<m>/<y> on store db
GetBody(db, kind, u, m, y) ==
    RecordBody(StoreAfterGet(db, kind, u, m, y), kind, u, m, y)

\* C4: after POST /api/expenses for (userId, month, year), the GET of that key
\* answers exactly the items just posted, a full read lists one record under
\* that key, and the GET of every other key answers what it did before.
C4_Overwrite ==
    [][ (Volatile /\ clock' # clock /\ last'.op = "POST /api/expenses") =>
          \A u \in UserIds, m \in Months, y \in Years, items \in ItemVals :
            (last'.id = JStr(u) /\ PostRecord("expenses", JStr(u), JNum(m), JNum(y), items)) =>
              /\ GetBody(users', "expenses", u, NumStr(m), NumStr(y)).items = items
              /\ \E r \in AtKey(Read(u, "expenses")', Key(JNum(m), JNum(y))) :
                    /\ AtKey(Read(u, "expenses")', Key(JNum(m), JNum(y))) = {r}
                    /\ r.items = items
              /\ \A u2 \in UserIds, m2 \in Months, y2 \in Years :
                    <<u2, m2, y2>> # <<u, m, y>> =>
                        GetBody(users', "expenses", u2, NumStr(m2), NumStr(y2))
                          = GetBody(users, "expenses", u2, NumStr(m2), NumStr(y2))
      ]_vars

\* C4 witness: u1's expenses of 2/2025 were filed before those of 1/2025,
\* which date from time 0, and were overwritten at time 1 by POST /api/expenses
\* with other items.
C4_Witness ==
    /\ Volatile
    /\ last = Done("POST /api/expenses", JStr("u1"), 200)
    /\ "u1" \in DOMAIN users
    /\ Len(users["u1"].expenses) = 2
    /\ users["u1"].expenses[1].k = "2-2025"
    /\ users["u1"].expenses[1].v.updatedAt = JDate(1)
    /\ users["u1"].expenses[1].v.items = JNull
    /\ users["u1"].expenses[2].k = "1-2025"
    /\ users["u1"].expenses[2].v.updatedAt = JDate(0)

\* C5 (as claimed): a POST /api/sync that carries no userId is answered 400
\* and creates no user state, in either variant.
C5_MissingUserIdRejected ==
    /\ (last.op = "POST /api/sync" /\ ~Truthy(last.id)) => last.status = 400
    /\ "undefined" \notin DOMAIN users
    /\ "undefined" \notin DOMAIN col

\* C6 (as claimed): in both variants a sync write that carries a fleet object
\* replaces the stored fleet: the next GET /api/sync answers a fleet whose
\* vehicles is the incoming vehicles or [], [] when the object omits vehicles,
\* and never a fleet without vehicles.
C6_FleetReplacedBothVariants ==
    [][ /\ (Volatile /\ clock' # clock /\ last'.op = "POST /api/sync") =>
            \A body \in SyncBodiesV :
              (body.userId = last'.id /\ PostSyncVOf(body) /\ body.fleet.t = "obj") =>
                LET v == Read(ToStr(body.userId), "fleet")'.vehicles IN
                /\ v \in {body.fleet.vehicles, JArr(<<>>)}
                /\ v # UNDEF
                /\ body.fleet.vehicles = UNDEF => v = JArr(<<>>)
        /\ (Persistent /\ clock' = clock) =>
            \A p \in pending : (UpdateAppliedOf(p) /\ p.body["fleet"].t = "obj") =>
                LET v == Read(ToStr(p.body.userId), "fleet")'.vehicles IN
                /\ v \in {p.body["fleet"].vehicles, JArr(<<>>)}
                /\ v # UNDEF
                /\ p.body["fleet"].vehicles = UNDEF => v = JArr(<<>>)
      ]_vars

\* C6 (amended): the volatile sync write stores { userId, vehicles: incoming
\* vehicles or [] }; the persistent sync write stores the incoming fleet object
\* as received, so the next GET answers exactly that object.
C6_FleetReplaced ==
    [][ /\ (Volatile /\ clock' # clock /\ last'.op = "POST /api/sync") =>
            \A body \in SyncBodiesV :
              (body.userId = last'.id /\ PostSyncVOf(body) /\ body.fleet.t = "obj") =>
                LET v == Read(ToStr(body.userId), "fleet")'.vehicles IN
                /\ v \in {body.fleet.vehicles, JArr(<<>>)}
                /\ v # UNDEF
                /\ body.fleet.vehicles = UNDEF => v = JArr(<<>>)
        /\ (Persistent /\ clock' = clock) =>
            \A p \in pending : (UpdateAppliedOf(p) /\ p.body["fleet"].t = "obj") =>
                Read(ToStr(p.body.userId), "fleet")' = p.body["fleet"]
      ]_vars

\* C6 witness: u1 synced a full payload (fleet with a car) at time 0 and a
\* fleet without vehicles at time 1: the stored fleet has vehicles = [].
C6_Witness ==
    /\ Volatile
    /\ last = Done("POST /api/sync", JStr("u1"), 200)
    /\ "u1" \in DOMAIN users
    /\ users["u1"].fleet = Fleet(JStr("u1"), JArr(<<>>), JDate(1))
    /\ \A k \in Kinds :
          /\ Len(users["u1"][k]) = 1
          /\ users["u1"][k][1].v.updatedAt = JDate(0)

\* the payloads a client posts for a kind
PayloadVals(kind) == IF kind = "notes" THEN ContentVals ELSE ItemVals

\* a per-domain write is read back as written: the record's payload by the
\* per-domain GET and by the full read, the vehicles by the fleet of the store
PerDomainRoundTrip ==
    /\ \A k \in Kinds, u \in UserIds, m \in Months, y \in Years :
        \A v \in PayloadVals(k) :
          (last'.op = "POST /api/" \o k /\ last'.id = JStr(u)
             /\ PostRecord(k, JStr(u), JNum(m), JNum(y), v)) =>
            /\ PayloadOf(k, GetBody(users', k, u, NumStr(m), NumStr(y))) = v
            /\ \E r \in AtKey(Read(u, k)', Key(JNum(m), JNum(y))) : PayloadOf(k, r) = v
    /\ \A u \in UserIds, v \in VehicleVals :
          (last'.op = "POST /api/fleet" /\ last'.id = JStr(u) /\ PostFleetOf(JStr(u), v)) =>
            /\ getUserData(users', JStr(u))[u].fleet.vehicles = v
            /\ Read(u, "fleet")'.vehicles = v

\* C7 (as claimed): whatever value a successful write supplies as items,
\* content, vehicles or a top-level sync field is what the next read of that
\* field answers; nothing written is dropped or replaced by a default.
C7_StoredAsReceived ==
    [][ /\ (Volatile /\ clock' # clock) =>
            /\ PerDomainRoundTrip
            /\ \A body \in SyncBodiesV :
                (last'.op = "POST /api/sync" /\ body.userId = last'.id
                   /\ PostSyncVOf(body)) =>
                 /\ \A k \in Kinds : body[k] # UNDEF =>
                       IF IsArray(body[k])
                       THEN \A key \in ListKeys(body[k]) :
                              \E r \in AtKey(Read(ToStr(body.userId), k)', key) :
                                 PayloadOf(k, r) = PayloadOf(k, LastAtKey(body[k], key))
                       ELSE Read(ToStr(body.userId), k)' = body[k]
                 /\ body.fleet # UNDEF =>
                       /\ body.fleet.t = "obj"
                       /\ body.fleet.vehicles # UNDEF =>
                            Read(ToStr(body.userId), "fleet")'.vehicles
                              = body.fleet.vehicles
        /\ (Persistent /\ clock' = clock) =>
            \A p \in pending : UpdateAppliedOf(p) =>
                \A f \in SyncFields : p.body[f] # UNDEF =>
                    Read(ToStr(p.body.userId), f)' = p.body[f]
      ]_vars

\* C7 (amended): per-domain writes are read back as written, whatever the
\* value.  A volatile sync write stores the payload of each list record as
\* received, ignores a list field that is no list and a falsy fleet, and
\* stores [] for falsy fleet.vehicles.  A persistent sync write is read back
\* as written when the value is truthy and as the field's default when it is
\* falsy.
C7_StoredAsReceivedUnlessFalsy ==
    [][ /\ (Volatile /\ clock' # clock) =>
            /\ PerDomainRoundTrip
            /\ \A body \in SyncBodiesV :
                (last'.op = "POST /api/sync" /\ body.userId = last'.id
                   /\ PostSyncVOf(body)) =>
                 /\ \A k \in Kinds : body[k] # UNDEF =>
                       IF IsArray(body[k])
                       THEN \A key \in ListKeys(body[k]) :
                              \E r \in AtKey(Read(ToStr(body.userId), k)', key) :
                                 PayloadOf(k, r) = PayloadOf(k, LastAtKey(body[k], key))
                       ELSE Read(ToStr(body.userId), k)' = Read(ToStr(body.userId), k)
                 /\ body.fleet # UNDEF =>
                       IF Truthy(body.fleet)
                       THEN Read(ToStr(body.userId), "fleet")'.vehicles
                              = (IF Truthy(body.fleet.vehicles) THEN body.fleet.vehicles
                                 ELSE JArr(<<>>))
                       ELSE Read(ToStr(body.userId), "fleet")'
                              = Read(ToStr(body.userId), "fleet")
        /\ (Persistent /\ clock' = clock) =>
            \A p \in pending : UpdateAppliedOf(p) =>
                \A f \in SyncFields : p.body[f] # UNDEF =>
                    Read(ToStr(p.body.userId), f)'
                      = (IF Truthy(p.body[f]) THEN p.body[f]
                         ELSE IF f = "fleet" THEN JFleet(JArr(<<>>))
                         ELSE IF f = "years" THEN JArr(<<JNum(2024), JNum(2025), JNum(2026)>>)
                         ELSE IF f = "categories" THEN defaultCategories
                         ELSE IF f = "suppliers" THEN defaultSuppliers
                         ELSE IF f = "paymentMethods" THEN defaultPaymentMethods
                         ELSE JArr(<<>>))
      ]_vars

\* C7 witness: the persistent store holds expenses = null for u1, as written
\* by the sync just applied; the next full read answers [] for it.
C7_Witness ==
    /\ Persistent
    /\ last = Done("POST /api/sync", JStr("u1"), 200)
    /\ "u1" \in DOMAIN col
    /\ col["u1"]["expenses"] = JNull
    /\ Read("u1", "expenses") = JArr(<<>>)

\* C8: in every state, a per-domain GET of a key that holds no record answers
\* the empty record of the requested userId, month and year, and leaves the
\* per-kind mapping as it was: the full read that follows lists no record
\* under that key.
C8_ReadAbsentRecord ==
    Volatile =>
        \A k \in Kinds, u \in UserIds, m \in Months, y \in Years :
            LET key == NumStr(m) \o "-" \o NumStr(y)
                after == StoreAfterGet(users, k, u, NumStr(m), NumStr(y))
                body == RecordBody(after, k, u, NumStr(m), NumStr(y))
            IN key \notin Keys(StoredV(users, u, k)) =>
                /\ body.userId = JStr(u)
                /\ body.month = JNum(m)
                /\ body.year = JNum(y)
                /\ PayloadOf(k, body) = (IF k = "notes" THEN JStr("") ELSE JArr(<<>>))
                /\ after[u][k] = StoredV(users, u, k)
                /\ key \notin ListKeys(ReadV(after, u)[k])

\* C8 witness: only reads were made so far; they created u1's state, u2 has
\* none yet, and u1's mappings hold no record.
C8_Witness ==
    /\ Volatile
    /\ clock = 0
    /\ DOMAIN users = {"u1"}
    /\ \A k \in Kinds : users["u1"][k] = <<>>

\* C9: a write that reaches the store replaces the value under its key by its
\* own payload, whole, whatever writes were accepted or applied before it, and
\* is answered 200: the volatile POST of a record stores exactly the record
\* of this request; an applied persistent update leaves every field its body
\* carries equal to the body's value.
C9_LastWriterWins ==
    [][ /\ (Volatile /\ clock' # clock) =>
            \A k \in Kinds, u \in UserIds, m \in Months, y \in Years :
              \A v \in PayloadVals(k) :
                (last'.op = "POST /api/" \o k /\ last'.id = JStr(u)
                   /\ PostRecord(k, JStr(u), JNum(m), JNum(y), v)) =>
                    /\ Lookup(users'[u][k], Key(JNum(m), JNum(y)))
                         = MkRecord(k, JStr(u), JNum(m), JNum(y), v, JDate(clock))
                    /\ last'.status = 200
        /\ (Persistent /\ clock' = clock) =>
            \A p \in pending : UpdateAppliedOf(p) =>
                /\ last'.status = 200
                /\ \A f \in SyncFields : p.body[f] # UNDEF =>
                      StoredP(col', ToStr(p.body.userId), f) = p.body[f]
      ]_vars

\* C9 witness: two sync writes of u1's expenses raced; the one accepted at
\* time 1 (the full payload, the only one that carries income) was applied
\* first, the one accepted at time 0 last, and its expenses are what is stored.
C9_Witness ==
    /\ Persistent
    /\ pending = {}
    /\ clock = 2
    /\ last = Done("POST /api/sync", JStr("u1"), 200)
    /\ "u1" \in DOMAIN col
    /\ col["u1"]["updatedAt"] = JDate(0)
    /\ col["u1"]["expenses"] = JArr(<<El("expenses", 1, ItemsB)>>)
    /\ col["u1"]["income"] # UNDEF

\* everything stored for user key v, and the full read of v
StateOf(v) ==
    <<IF v \in DOMAIN users THEN {users[v]} ELSE {},
      IF v \in DOMAIN col THEN {col[v]} ELSE {},
      IF Volatile THEN ReadV(users, v) ELSE ReadP(col, v)>>

\* C10: a request issued for userId u leaves the stored state and the full
\* read of every other userId as they were (a step that leaves both stores as
\* they were changes nobody's state).
C10_Isolation ==
    [][ /\ (Volatile /\ clock' # clock) =>
            \A v \in UserKeys \ {ToStr(last'.id)} : StateOf(v)' = StateOf(v)
        /\ (Volatile /\ clock' = clock /\ users' # users) =>
            \A u \in UserIds :
                (\/ \E k \in Kinds, m \in Months, y \in Years :
                        GetRecord(k, u, NumStr(m), NumStr(y))
                 \/ GetFleetOf(u)
                 \/ GetSyncVOf(u)) =>
                    \A v \in UserKeys \ {u} : StateOf(v)' = StateOf(v)
        /\ (Persistent /\ col' # col) =>
            /\ \A p \in pending : UpdateAppliedOf(p) =>
                   \A v \in UserKeys \ {ToStr(p.body.userId)} : StateOf(v)' = StateOf(v)
            /\ \A u \in UserIds : DeleteSyncOf(u) =>
                   \A v \in UserKeys \ {u} : StateOf(v)' = StateOf(v)
      ]_vars

\* C10 witness: u1's document was stored at time 0; after that u2 was
\* deleted, and u1's document is still as stored.
C10_Witness ==
    /\ Persistent
    /\ last = Done("DELETE /api/sync", JStr("u2"), 200)
    /\ written = {"u1"}
    /\ clock = 2
    /\ pending = {}
    /\ DOMAIN col = {"u1"}
    /\ col["u1"]["updatedAt"] = JDate(0)
    /\ col["u1"]["expenses"] # UNDEF
====
